---------------------------- MODULE Spec2Model ----------------------------
(***************************************************************************)
(* Model of scripts/contracts-check-diff.mjs: the contract compatibility   *)
(* classifier and version-bump policy gate; and of one Playwright test of  *)
(* tests/ run by one project of playwright.config.ts with the fixtures of  *)
(* fixtures/federation.fixture.ts and the remote of generate-fake.mjs.     *)
(*                                                                         *)
(* Values of the script are modelled as follows.                           *)
(*   - A string that the script inspects character by character (a version *)
(*     string) is a sequence of one-character strings.                     *)
(*   - A field schema ("shape") is a JSON object: a sequence of members    *)
(*     [k, v] in insertion order, v being the sequence of the member's     *)
(*     literals (one literal for a scalar member such as type, the array   *)
(*     elements for enum).                                                 *)
(*   - A schema document is [present, properties, required]: properties is *)
(*     a function from the document's own property names to shapes,        *)
(*     required is the set the script builds with new Set(js.required??[]).*)
(*     present = FALSE is the null that readJSONAtRef returns.             *)
(*   - A JS number is [nan, val], so that NaN compares as JS compares it.  *)
(*   - A project name and a test title, which includes() and the grep      *)
(*     patterns search, are sequences of one-character strings.            *)
(***************************************************************************)
EXTENDS Integers, Sequences, FiniteSets, TLC

VARIABLES
    pc,        \* position of the script
    files,     \* changed(): the changed paths, each a sequence of segments
    i,         \* number of schemaFiles processed by the loop of line 32
    required,  \* let required (line 31)
    oldJ,      \* oldJ of the current loop iteration / classify's oldJs
    newJ,      \* newJ of the current loop iteration / classify's newJs
    c,         \* c of the current loop iteration / classify's result
    oldV,      \* oldV (line 39)
    newV,      \* newV (line 40)
    bump,      \* bump (line 41) / cmp's result
    out,       \* lines written to the console, in order
    exitCode,  \* process exit status: -1 while running
    sevs,      \* the severities folded when the aggregation runs in isolation
    ref,       \* what git show found at origin/main for the current file
    wcopy,     \* what the working copy holds for the current file
    project,   \* the Playwright project that runs the test
    test,      \* the test: its title path and which body it has
    fsys,      \* which of generated-fake-remote.js and remoteEntry.har exist
    tpc,       \* position of the test run
    mode,      \* the federationMode fixture's value
    installed, \* what routeFederation installed on the context, in order
    window,    \* the page's window: callback, recorded events, errors
    timer,     \* the setTimeout of the generated fake remote's widget
    seen       \* what the test's last page.evaluate returned

scriptVars == <<pc, files, i, required, oldJ, newJ, c, oldV, newV, bump, out, exitCode,
                sevs, ref, wcopy>>
testVars == <<project, test, fsys, tpc, mode, installed, window, timer, seen>>
vars == <<scriptVars, testVars>>

\* no test is run
NoTestRun ==
    /\ project = <<>>
    /\ test = <<>>
    /\ fsys = <<>>
    /\ tpc = "-"
    /\ mode = "-"
    /\ installed = <<>>
    /\ window = <<>>
    /\ timer = "-"
    /\ seen = <<>>

----------------------------------------------------------------------------
(* Bounds of the model. *)

\* longest batch of changed files / longest sequence of severities folded
MaxFiles == 3
\* longest enum array of a shape
MaxEnumLen == 2
\* largest component of a well-formed version string
MaxComp == 4

----------------------------------------------------------------------------
(* Severities: rank and bumpFrom (lines 25-26). *)

Severity == {"none", "patch", "minor", "major"}

rank(a) ==
    CASE a = "none" -> 0
      [] a = "patch" -> 1
      [] a = "minor" -> 2
      [] a = "major" -> 3

\* a plausible slip: the first classified severity is kept
bumpFromFirst(a, b) == IF a = "none" THEN b ELSE a

\* a plausible slip: the new severity replaces the old one
bumpFromLast(a, b) == b

\* a plausible slip: the comparison of bumpFrom reversed
bumpFromReversed(a, b) == IF rank(a) <= rank(b) THEN a ELSE b

bumpFrom(a, b) == IF rank(a) >= rank(b) THEN a ELSE b

----------------------------------------------------------------------------
(* Shapes and schema documents. *)

Types == {"string", "number"}
EnumVals == {"A", "B", "C"}

Member(k, v) == [k |-> k, v |-> v]

\* the arrays an enum member can hold: non-empty, duplicates allowed
EnumLists == UNION {[1..n -> EnumVals] : n \in 1..MaxEnumLen}

\* shapes {type}, {type, format}, {type, enum} and the last two with their
\* keys written in the other order
Shapes ==
    {<<Member("type", <<t>>)>> : t \in Types}
    \cup {<<Member("type", <<t>>), Member("format", <<"date">>)>> : t \in Types}
    \cup {<<Member("format", <<"date">>), Member("type", <<t>>)>> : t \in Types}
    \cup {<<Member("type", <<t>>), Member("enum", e)>> : t \in Types, e \in EnumLists}
    \cup {<<Member("enum", e), Member("type", <<t>>)>> : t \in Types, e \in EnumLists}

\* names that every object inherits from Object.prototype: the `in` operator
\* finds them in an object that has no such own property
ObjectPrototypeKeys ==
    {"constructor", "toString", "toLocaleString", "valueOf", "hasOwnProperty",
     "isPrototypeOf", "propertyIsEnumerable"}

\* k in obj
In(k, obj) == k \in DOMAIN obj \/ k \in ObjectPrototypeKeys

RECURSIVE Join(_)
\* the literals of an array, comma separated
Join(v) == IF Len(v) = 0 THEN <<>>
           ELSE IF Len(v) = 1 THEN <<v[1]>>
           ELSE <<v[1], ",">> \o Join(Tail(v))

MemberText(m) ==
    IF m.k = "enum" THEN <<m.k, ":", "[">> \o Join(m.v) \o <<"]">>
    ELSE <<m.k, ":", m.v[1]>>

RECURSIVE MembersText(_)
MembersText(s) == IF Len(s) = 0 THEN <<>>
                  ELSE IF Len(s) = 1 THEN MemberText(s[1])
                  ELSE MemberText(s[1]) \o <<",">> \o MembersText(Tail(s))

\* JSON.stringify of a shape: its members in insertion order
StringifyShape(s) == <<"{">> \o MembersText(s) \o <<"}">>

\* JSON.stringify(obj[k]): an inherited k is a function of Object.prototype,
\* which JSON.stringify turns into undefined (here the empty text)
Stringify(obj, k) == IF k \in DOMAIN obj THEN StringifyShape(obj[k]) ELSE <<>>

\* a plausible slip: the size is the array's length, duplicates counted
EnumSetLength(obj, k) ==
    IF k \in DOMAIN obj /\ \E j \in 1..Len(obj[k]) : obj[k][j].k = "enum"
    THEN LET e == (CHOOSE j \in 1..Len(obj[k]) : obj[k][j].k = "enum")
         IN  [isSet |-> TRUE, set |-> {obj[k][e].v[n] : n \in 1..Len(obj[k][e].v)},
              size |-> Len(obj[k][e].v)]
    ELSE [isSet |-> FALSE, set |-> {}, size |-> 0]

\* Array.isArray(obj[k].enum) ? new Set(obj[k].enum) : null, as
\* [isSet, set, size]: a Set keeps one of each value, size counts them
EnumSet(obj, k) ==
    IF k \in DOMAIN obj /\ \E j \in 1..Len(obj[k]) : obj[k][j].k = "enum"
    THEN LET e == (CHOOSE j \in 1..Len(obj[k]) : obj[k][j].k = "enum")
             set == {obj[k][e].v[n] : n \in 1..Len(obj[k][e].v)}
         IN  [isSet |-> TRUE, set |-> set, size |-> Cardinality(set)]
    ELSE [isSet |-> FALSE, set |-> {}, size |-> 0]

\* a plausible slip: the exemption of line 16 tests the sizes only
ShapeBreaksSizeOnly(oP, nP, k) ==
    LET o == Stringify(oP, k)
        n == Stringify(nP, k)
        oe == EnumSet(oP, k)
        ne == EnumSet(nP, k)
    IN  /\ o # n
        /\ ~(oe.isSet /\ ne.isSet /\ ne.size >= oe.size)

\* the loop body of lines 11-19 with the test ne.size>=oe.size taken out
ShapeBreaksNoSizeTest(oP, nP, k) ==
    LET o == Stringify(oP, k)
        n == Stringify(nP, k)
        oe == EnumSet(oP, k)
        ne == EnumSet(nP, k)
        sup == \A v \in oe.set : v \in ne.set
    IN  /\ o # n
        /\ ~(oe.isSet /\ ne.isSet /\ sup)

\* a plausible slip: the enum exemption of lines 14-16 left out
ShapeBreaksNoExemption(oP, nP, k) == Stringify(oP, k) # Stringify(nP, k)

\* the body of the loop of lines 11-19 for a shared key k: TRUE when it
\* returns 'major', FALSE when it goes on to the next key
ShapeBreaks(oP, nP, k) ==
    LET o == Stringify(oP, k)
        n == Stringify(nP, k)
        oe == EnumSet(oP, k)
        ne == EnumSet(nP, k)
        sup == \A v \in oe.set : v \in ne.set
    IN  /\ o # n
        /\ ~(oe.isSet /\ ne.isSet /\ sup /\ ne.size >= oe.size)

\* line 10: some own key of oP is not `in` nP
HasRemoved(oP, nP) == \E k \in DOMAIN oP : ~In(k, nP)

\* lines 11-19: some key of nP that is `in` oP reaches the return of line 17
HasBreakingShape(oP, nP) == \E k \in DOMAIN nP : In(k, oP) /\ ShapeBreaks(oP, nP, k)

\* a plausible slip: the two sets of line 20 swapped
HasNewlyRequiredSwapped(oR, nR) == \E k \in oR : k \notin nR

\* line 20: some member of nR is not in oR
HasNewlyRequired(oR, nR) == \E k \in nR : k \notin oR

\* line 21: the keys of nP that are not `in` oP
Added(oP, nP) == {k \in DOMAIN nP : ~In(k, oP)}

\* a plausible slip: the added keys are looked at before the required sets
classifyAddedFirst(oldJs, newJs) ==
    IF ~oldJs.present THEN "minor"
    ELSE LET oP == oldJs.properties
             nP == newJs.properties
             oR == oldJs.required
             nR == newJs.required
             added == Added(oP, nP)
         IN  IF HasRemoved(oP, nP) THEN "major"
             ELSE IF HasBreakingShape(oP, nP) THEN "major"
             ELSE IF added # {}
                  THEN IF \E k \in added : k \in nR THEN "major" ELSE "minor"
             ELSE IF HasNewlyRequired(oR, nR) THEN "major"
             ELSE "patch"

\* a plausible slip: documents with no difference need no bump
classifyNoneWhenSame(oldJs, newJs) ==
    IF ~oldJs.present THEN "minor"
    ELSE LET oP == oldJs.properties
             nP == newJs.properties
             oR == oldJs.required
             nR == newJs.required
             added == Added(oP, nP)
         IN  IF HasRemoved(oP, nP) THEN "major"
             ELSE IF HasBreakingShape(oP, nP) THEN "major"
             ELSE IF HasNewlyRequired(oR, nR) THEN "major"
             ELSE IF added # {}
                  THEN IF \E k \in added : k \in nR THEN "major" ELSE "minor"
             ELSE "none"

\* classify (lines 6-24)
classify(oldJs, newJs) ==
    IF ~oldJs.present THEN "minor"
    ELSE LET oP == oldJs.properties
             nP == newJs.properties
             oR == oldJs.required
             nR == newJs.required
             added == Added(oP, nP)
         IN  IF HasRemoved(oP, nP) THEN "major"
             ELSE IF HasBreakingShape(oP, nP) THEN "major"
             ELSE IF HasNewlyRequired(oR, nR) THEN "major"
             ELSE IF added # {}
                  THEN IF \E k \in added : k \in nR THEN "major" ELSE "minor"
             ELSE "patch"

----------------------------------------------------------------------------
(* Version strings: parse and cmp (lines 27-28). *)

BS == "\\"
DigitChars == <<"0", "1", "2", "3", "4", "5", "6", "7", "8", "9">>
IsDigit(ch) == \E d \in 1..10 : DigitChars[d] = ch
DigitVal(ch) == (CHOOSE d \in 1..10 : DigitChars[d] = ch) - 1

NaN == [nan |-> TRUE, val |-> 0]
Num(n) == [nan |-> FALSE, val |-> n]

RECURSIVE DecimalValue(_)
DecimalValue(s) == IF Len(s) = 0 THEN 0
                   ELSE 10 * DecimalValue(SubSeq(s, 1, Len(s) - 1)) + DigitVal(s[Len(s)])

\* unary plus on a captured group: the number it spells, NaN when it spells none
ToNumber(s) ==
    IF Len(s) > 0 /\ \A j \in 1..Len(s) : IsDigit(s[j]) THEN Num(DecimalValue(s)) ELSE NaN

\* a > b and a === b on JS numbers: both false when either side is NaN
Gt(a, b) == ~a.nan /\ ~b.nan /\ a.val > b.val
StrictEq(a, b) == ~a.nan /\ ~b.nan /\ a.val = b.val

RECURSIVE RunOfD(_, _)
\* the index after the longest run of the letter d that starts at j
RunOfD(s, j) == IF j <= Len(s) /\ s[j] = "d" THEN RunOfD(s, j + 1) ELSE j

\* the group (\\d+) of the pattern of line 27 matched at j: a backslash and
\* one or more letters d. The index after the match, 0 when there is none.
MatchGroup(s, j) ==
    IF j > 0 /\ j + 1 <= Len(s) /\ s[j] = BS /\ s[j + 1] = "d" THEN RunOfD(s, j + 1) ELSE 0

\* \\. of the pattern matched at j: a backslash and any character but a line
\* terminator. The index after the match, 0 when there is none.
MatchSep(s, j) ==
    IF j > 0 /\ j + 1 <= Len(s) /\ s[j] = BS /\ s[j + 1] # "\n" THEN j + 2 ELSE 0

ParseNull == [ok |-> FALSE, M |-> NaN, m |-> NaN, p |-> NaN]

\* parse (line 27): String(v).match(/^(\\d+)\\.(\\d+)\\.(\\d+)/)
parse(v) ==
    LET e1 == MatchGroup(v, 1)
        s1 == MatchSep(v, e1)
        e2 == MatchGroup(v, s1)
        s2 == MatchSep(v, e2)
        e3 == MatchGroup(v, s2)
    IN  IF e3 = 0 THEN ParseNull
        ELSE [ok |-> TRUE,
              M |-> ToNumber(SubSeq(v, 1, e1 - 1)),
              m |-> ToNumber(SubSeq(v, s1, e2 - 1)),
              p |-> ToNumber(SubSeq(v, s2, e3 - 1))]

\* cmp (line 28)
cmp(ov, nv) ==
    LET o == parse(ov)
        n == parse(nv)
    IN  IF ~o.ok \/ ~n.ok THEN "invalid"
        ELSE IF Gt(n.M, o.M) THEN "major"
        ELSE IF StrictEq(n.M, o.M) /\ Gt(n.m, o.m) THEN "minor"
        ELSE IF StrictEq(n.M, o.M) /\ StrictEq(n.m, o.m) /\ Gt(n.p, o.p) THEN "patch"
        ELSE "none-or-down"

BumpClassification == {"invalid", "none-or-down", "patch", "minor", "major"}

----------------------------------------------------------------------------
(* The policy decision (lines 43-47). *)

Line(stream, text, file, sev) == [stream |-> stream, text |-> text, file |-> file, sev |-> sev]

\* a plausible slip: fail exits before it reports the message
failSilent(m) == [exit |-> 1, lines |-> <<>>]

\* a plausible slip: fail reports the message and exits with status 0
failExitsZero(m) == [exit |-> 0, lines |-> <<Line("error", m, <<>>, "")>>]

\* fail(m) and ok(m) (line 43): one line, then process.exit
fail(m) == [exit |-> 1, lines |-> <<Line("error", m, <<>>, "")>>]
ok(m) == [exit |-> 0, lines |-> <<Line("log", m, <<>>, "")>>]

\* console.warn of line 44
Warning == Line("warn", "non-patch bump without schema change", <<>>, "")

\* a plausible slip: || for && in the test of line 44
warnsEither(b) == b # "none-or-down" \/ b # "patch"

\* bump!=='none-or-down' && bump!=='patch' (line 44)
warns(b) == b # "none-or-down" /\ b # "patch"

\* a plausible slip: the minor row accepts a minor bump only
decideMinorExact(req, b) ==
    IF req = "none"
    THEN [exit |-> 0,
          lines |-> (IF warns(b) THEN <<Warning>> ELSE <<>>)
                    \o ok("no schema changes").lines]
    ELSE IF req = "patch"
    THEN IF b \in {"patch", "minor", "major"} THEN ok("patch ok")
         ELSE fail("patch change needs version bump")
    ELSE IF req = "minor"
    THEN IF b = "minor" THEN ok("minor ok")
         ELSE fail("additive change needs minor bump")
    ELSE IF req = "major"
    THEN IF b = "major" THEN ok("major ok")
         ELSE fail("breaking change needs MAJOR bump")
    ELSE [exit |-> 0, lines |-> <<>>]

\* lines 44-47: the rows are tried in order and the first ok or fail exits
\* the process; with no row taken the script ends by itself
decide(req, b) ==
    IF req = "none"
    THEN [exit |-> 0,
          lines |-> (IF warns(b) THEN <<Warning>> ELSE <<>>)
                    \o ok("no schema changes").lines]
    ELSE IF req = "patch"
    THEN IF b \in {"patch", "minor", "major"} THEN ok("patch ok")
         ELSE fail("patch change needs version bump")
    ELSE IF req = "minor"
    THEN IF b \in {"minor", "major"} THEN ok("minor ok")
         ELSE fail("additive change needs minor bump")
    ELSE IF req = "major"
    THEN IF b = "major" THEN ok("major ok")
         ELSE fail("breaking change needs MAJOR bump")
    ELSE [exit |-> 0, lines |-> <<>>]

----------------------------------------------------------------------------
(* The inputs of a run. *)

Doc(props, req) == [present |-> TRUE, properties |-> props, required |-> req]

\* the null of readJSONAtRef
NullJs == [present |-> FALSE, properties |-> <<>>, required |-> {}]

StringShape == <<Member("type", <<"string">>)>>
StatusShape == <<Member("type", <<"string">>), Member("enum", <<"A", "B">>)>>

\* the schema documents a run reads
RunDocs ==
    { Doc([k \in {"id"} |-> StringShape], {}),
      Doc([k \in {"id", "status"} |-> IF k = "id" THEN StringShape ELSE StatusShape], {}),
      Doc([k \in {"id", "status"} |-> IF k = "id" THEN StringShape ELSE StatusShape], {"status"}),
      Doc(<<>>, {}) }

\* what `git show origin/main:<path>` finds for a changed schema file: no
\* such file at that revision, a failure of git itself, text that is not
\* JSON, the JSON text null, or a schema document
AtRef == [state : {"missing", "giterror", "badjson", "jsonnull"}, doc : {NullJs}]
         \cup [state : {"ok"}, doc : RunDocs]

\* no file is being read
NoFile == [state |-> "-", doc |-> NullJs]

\* a plausible slip: the catch of line 5 returns an empty document
readJSONAtRefEmptyDoc(r) == IF r.state = "ok" THEN r.doc ELSE Doc(<<>>, {})

\* readJSONAtRef (line 5): the parsed document, null on every failure
readJSONAtRef(r) == IF r.state = "ok" THEN r.doc ELSE NullJs

\* what fs.readFileSync and JSON.parse find in the working copy
WorkingCopy == [state : {"unreadable", "badjson"}, doc : {NullJs}]
               \cup [state : {"ok"}, doc : RunDocs]

\* the paths `git diff --name-only` can list
Paths ==
    { <<"contracts", "schema", "offer.json">>,
      <<"contracts", "schema", "event.json">>,
      <<"contracts", "package.json">>,
      <<"README.md">> }

\* f.startsWith('contracts/schema/')
InSchemaDir(f) == Len(f) >= 3 /\ f[1] = "contracts" /\ f[2] = "schema"

\* a plausible slip: the filter of line 30 left out
schemaFilesOfAll(fs) == fs

\* files.filter(...) of line 30
schemaFilesOf(fs) == SelectSeq(fs, InSchemaDir)

\* the batches of changed paths: distinct paths in any order
Batches ==
    UNION {{q \in [1..n -> Paths] : \A a, b \in 1..n : a # b => q[a] # q[b]} : n \in 0..MaxFiles}

RECURSIVE Decimal(_)
\* the decimal digits of a natural number
Decimal(n) == IF n < 10 THEN <<DigitChars[n + 1]>>
              ELSE Decimal(n \div 10) \o <<DigitChars[(n % 10) + 1]>>

\* the version string <M>.<m>.<p>
Version(M, m, p) == Decimal(M) \o <<".">> \o Decimal(m) \o <<".">> \o Decimal(p)

\* a string the pattern of line 27 does match
BackslashVersion == <<BS, "d", BS, ".", BS, "d", "d", BS, ".", BS, "d">>

\* the version strings a run reads from contracts/package.json
RunVersions == {Version(1, 2, 3), Version(2, 0, 0), BackslashVersion, <<"x", ".", "y", ".", "z">>}

----------------------------------------------------------------------------
(* The run of the script. *)

Idle == "-"

Init ==
    /\ pc = "start"
    /\ files = <<>>
    /\ i = 0
    /\ required = Idle
    /\ oldJ = NullJs
    /\ newJ = NullJs
    /\ c = Idle
    /\ oldV = <<>>
    /\ newV = <<>>
    /\ bump = Idle
    /\ out = <<>>
    /\ exitCode = -1
    /\ sevs = <<>>
    /\ ref = NoFile
    /\ wcopy = NoFile
    /\ NoTestRun

\* a plausible slip: the exception is caught and the script goes on
CrashSwallowed ==
    /\ pc' = pc
    /\ exitCode' = exitCode

\* an exception nothing catches: node reports it and exits with status 1
Crash ==
    /\ pc' = "crashed"
    /\ exitCode' = 1

\* lines 29-31: changed() runs git diff, which throws when git fails
Changed ==
    /\ pc = "start"
    /\ \/ /\ \E b \in Batches : files' = b
          /\ required' = "none"
          /\ pc' = "loop"
          /\ UNCHANGED exitCode
       \/ /\ Crash
          /\ UNCHANGED <<files, required>>
    /\ UNCHANGED <<i, oldJ, newJ, c, oldV, newV, bump, out, sevs, ref, wcopy>>
    /\ UNCHANGED testVars

\* one iteration of the loop of lines 32-38
ProcessFile ==
    /\ pc = "loop"
    /\ i < Len(schemaFilesOf(files))
    /\ \E r \in AtRef, w \in WorkingCopy :
         LET f == schemaFilesOf(files)[i + 1]
             o == readJSONAtRef(r)
             k == classify(o, w.doc)
         IN  /\ ref' = r
             /\ wcopy' = w
             /\ oldJ' = o
             /\ \/ /\ w.state = "ok"
                   /\ newJ' = w.doc
                   /\ c' = k
                   /\ required' = bumpFrom(required, k)
                   /\ out' = Append(out, Line("log", "Schema change", f, k))
                   /\ i' = i + 1
                   /\ UNCHANGED <<pc, exitCode>>
                \/ /\ w.state # "ok"
                   /\ Crash
                   /\ UNCHANGED <<newJ, c, required, out, i>>
    /\ UNCHANGED <<files, oldV, newV, bump, sevs>>
    /\ UNCHANGED testVars

\* lines 39-42: a failing git show leaves oldV at '0.0.0'; a failing read of
\* the working copy's package.json is not caught
ReadVersions ==
    /\ pc = "loop"
    /\ i = Len(schemaFilesOf(files))
    /\ \E ov \in RunVersions \cup {Version(0, 0, 0)} :
         /\ oldV' = ov
         /\ \/ \E nv \in RunVersions :
                 /\ newV' = nv
                 /\ bump' = cmp(ov, nv)
                 /\ out' = out \o << Line("log", "Highest required", <<>>, required),
                                     Line("log", "contracts version", <<>>, cmp(ov, nv)) >>
                 /\ pc' = "decide"
                 /\ UNCHANGED exitCode
            \/ /\ Crash
               /\ UNCHANGED <<newV, bump, out>>
    /\ oldJ' = NullJs
    /\ newJ' = NullJs
    /\ c' = Idle
    /\ ref' = NoFile
    /\ wcopy' = NoFile
    /\ UNCHANGED <<files, i, required, sevs>>
    /\ UNCHANGED testVars

\* lines 44-47
Decide ==
    /\ pc = "decide"
    /\ out' = out \o decide(required, bump).lines
    /\ exitCode' = decide(required, bump).exit
    /\ pc' = "exited"
    /\ UNCHANGED <<files, i, required, oldJ, newJ, c, oldV, newV, bump, sevs, ref, wcopy>>
    /\ UNCHANGED testVars

Next == Changed \/ ProcessFile \/ ReadVersions \/ Decide

Spec == Init /\ [][Next]_vars

----------------------------------------------------------------------------
(* classify in isolation: every pair of documents below is classified. *)

NumberShape == <<Member("type", <<"number">>)>>
WideStatusShape == <<Member("type", <<"string">>), Member("enum", <<"A", "B", "C">>)>>

\* the shapes each property name takes in the documents whose structure varies
ShapesOf(k) ==
    CASE k = "id" -> {StringShape, NumberShape}
      [] k = "status" -> {StatusShape, WideStatusShape}
      [] k = "constructor" -> {StringShape}

PropNames == {"id", "status", "constructor"}

\* the property mappings over the names of S
PropsOver(S) ==
    {f \in [S -> UNION {ShapesOf(k) : k \in S}] : \A k \in S : f[k] \in ShapesOf(k)}

\* documents that vary in their property names, shapes and required sets
StructDocs ==
    {Doc(f, r) : f \in UNION {PropsOver(S) : S \in SUBSET PropNames}, r \in SUBSET PropNames}

\* documents of one property that takes every shape
ShapeDocs == {Doc([k \in {"status"} |-> s], {}) : s \in Shapes}

ClassifyInputs ==
    ((StructDocs \cup {NullJs}) \X StructDocs) \cup (ShapeDocs \X ShapeDocs)

InitClassify ==
    /\ pc = "classify"
    /\ \E pr \in ClassifyInputs : oldJ = pr[1] /\ newJ = pr[2]
    /\ c = Idle
    /\ files = <<>>
    /\ i = 0
    /\ required = Idle
    /\ oldV = <<>>
    /\ newV = <<>>
    /\ bump = Idle
    /\ out = <<>>
    /\ exitCode = -1
    /\ sevs = <<>>
    /\ ref = NoFile
    /\ wcopy = NoFile
    /\ NoTestRun

\* const c = classify(oldJ, newJ) (line 35)
Classify ==
    /\ pc = "classify"
    /\ c' = classify(oldJ, newJ)
    /\ pc' = "classified"
    /\ UNCHANGED <<files, i, required, oldJ, newJ, oldV, newV, bump, out, exitCode, sevs, ref, wcopy>>
    /\ UNCHANGED testVars

NextClassify == Classify

SpecClassify == InitClassify /\ [][NextClassify]_vars

----------------------------------------------------------------------------
(* cmp in isolation: every pair of version strings below is compared. *)

\* the version strings compared: the well-formed ones, one with a
\* pre-release tag, one that is no version, one the pattern matches
VersionStrings ==
    {Version(M, m, p) : M \in 0..MaxComp, m \in 0..MaxComp, p \in 0..MaxComp}
    \cup { Version(1, 2, 3) \o <<"-", "b">>, <<"x", ".", "y", ".", "z">>, BackslashVersion }

InitCmp ==
    /\ pc = "cmp"
    /\ oldV \in VersionStrings
    /\ newV \in VersionStrings
    /\ bump = Idle
    /\ files = <<>>
    /\ i = 0
    /\ required = Idle
    /\ oldJ = NullJs
    /\ newJ = NullJs
    /\ c = Idle
    /\ out = <<>>
    /\ exitCode = -1
    /\ sevs = <<>>
    /\ ref = NoFile
    /\ wcopy = NoFile
    /\ NoTestRun

\* const bump = cmp(oldV, newV) (line 41)
Compare ==
    /\ pc = "cmp"
    /\ bump' = cmp(oldV, newV)
    /\ pc' = "compared"
    /\ UNCHANGED <<files, i, required, oldJ, newJ, c, oldV, newV, out, exitCode, sevs, ref, wcopy>>
    /\ UNCHANGED testVars

NextCmp == Compare

SpecCmp == InitCmp /\ [][NextCmp]_vars

----------------------------------------------------------------------------
(* The aggregation and the decision in isolation: a sequence of severities *)
(* is folded with bumpFrom as the loop of lines 31-38 folds c, and the     *)
(* result is decided against every bump classification.                    *)

SevSeqs == UNION {[1..n -> Severity] : n \in 0..MaxFiles}

InitPolicy ==
    /\ sevs \in SevSeqs
    /\ bump \in BumpClassification
    /\ pc = IF sevs = <<>> THEN "decide" ELSE "fold"
    /\ required = "none"
    /\ i = 0
    /\ files = <<>>
    /\ oldJ = NullJs
    /\ newJ = NullJs
    /\ c = Idle
    /\ oldV = <<>>
    /\ newV = <<>>
    /\ out = <<>>
    /\ exitCode = -1
    /\ ref = NoFile
    /\ wcopy = NoFile
    /\ NoTestRun

\* required = bumpFrom(required, c) (line 36)
Fold ==
    /\ pc = "fold"
    /\ i < Len(sevs)
    /\ c' = sevs[i + 1]
    /\ required' = bumpFrom(required, sevs[i + 1])
    /\ i' = i + 1
    /\ pc' = IF i + 1 = Len(sevs) THEN "decide" ELSE "fold"
    /\ UNCHANGED <<files, oldJ, newJ, oldV, newV, bump, out, exitCode, sevs, ref, wcopy>>
    /\ UNCHANGED testVars

NextPolicy == Fold \/ Decide

SpecPolicy == InitPolicy /\ [][NextPolicy]_vars

----------------------------------------------------------------------------
(* One Playwright test run by one project: playwright.config.ts,           *)
(* fixtures/federation.fixture.ts, generate-fake.mjs and the tests.        *)

\* String.prototype.includes, and the search RegExp.prototype.test makes for
\* a pattern that is a literal
Includes(str, sub) ==
    \E j \in 1..(Len(str) - Len(sub) + 1) : SubSeq(str, j, j + Len(sub) - 1) = sub

\* a pattern that is an alternation of literals matches where one of them occurs
RegexTest(alts, str) == \E n \in DOMAIN alts : Includes(str, alts[n])

\* 'fake' (fixture lines 229 and host-real-remote.spec.ts line 5)
Fake == <<"f", "a", "k", "e">>

\* /@fake|@contract/ (playwright.config.ts lines 80 and 85)
TagPattern ==
    << <<"@", "f", "a", "k", "e">>, <<"@", "c", "o", "n", "t", "r", "a", "c", "t">> >>

ChromiumFake ==
    <<"c", "h", "r", "o", "m", "i", "u", "m", "-", "f", "a", "k", "e">>
ChromiumReal ==
    <<"c", "h", "r", "o", "m", "i", "u", "m", "-", "r", "e", "a", "l">>

\* projects (playwright.config.ts lines 76-87): an empty pattern is one not set
Projects ==
    { [name |-> ChromiumFake, grep |-> TagPattern, grepInvert |-> <<>>],
      [name |-> ChromiumReal, grep |-> <<>>, grepInvert |-> TagPattern] }

ContractSpecFile ==
    <<"c", "o", "n", "t", "r", "a", "c", "t", "s", "/", "c", "o", "n", "t", "r", "a",
      "c", "t", ".", "s", "p", "e", "c", ".", "t", "s">>
SelftestSpecFile ==
    <<"c", "o", "n", "t", "r", "a", "c", "t", "s", "/", "c", "o", "n", "t", "r", "a",
      "c", "t", "-", "s", "e", "l", "f", "t", "e", "s", "t", ".", "s", "p", "e", "c",
      ".", "t", "s">>
IntegrationSpecFile ==
    <<"i", "n", "t", "e", "g", "r", "a", "t", "i", "o", "n", "/", "h", "o", "s", "t",
      "-", "r", "e", "a", "l", "-", "r", "e", "m", "o", "t", "e", ".", "s", "p", "e",
      "c", ".", "t", "s">>

\* the describe titles; the arrow of the first is written <->
ContractDescribe ==
    <<"H", "o", "s", "t", " ", "<", "-", ">", " ", "R", "e", "m", "o", "t", "e", " ",
      "c", "o", "n", "t", "r", "a", "c", "t", " ", "(", "@", "c", "o", "n", "t", "r",
      "a", "c", "t", " ", "@", "f", "a", "k", "e", ")">>
SelftestDescribe ==
    <<"C", "o", "n", "t", "r", "a", "c", "t", " ", "s", "e", "l", "f", "-", "t", "e",
      "s", "t", " ", "(", "@", "c", "o", "n", "t", "r", "a", "c", "t", " ", "@", "f",
      "a", "k", "e", ")">>
IntegrationDescribe ==
    <<"I", "n", "t", "e", "g", "r", "a", "t", "i", "o", "n", " ", "s", "a", "n", "i",
      "t", "y", " ", "w", "i", "t", "h", " ", "r", "e", "a", "l", " ", "r", "e", "m",
      "o", "t", "e">>

EventsTitle ==
    <<"r", "e", "m", "o", "t", "e", " ", "m", "o", "u", "n", "t", "s", " ", "a", "n",
      "d", " ", "e", "m", "i", "t", "s", " ", "e", "x", "p", "e", "c", "t", "e", "d",
      " ", "e", "v", "e", "n", "t", "s">>
OffersTitle ==
    <<"A", "P", "I", " ", "c", "o", "n", "t", "r", "a", "c", "t", ":", " ", "o", "f",
      "f", "e", "r", "s", " ", "e", "n", "d", "p", "o", "i", "n", "t", " ", "s", "h",
      "a", "p", "e", " ", "i", "s", " ", "v", "a", "l", "i", "d">>
NegativeTitle ==
    <<"n", "e", "g", "a", "t", "i", "v", "e", ":", " ", "m", "i", "s", "s", "i", "n",
      "g", " ", "c", "a", "l", "l", "b", "a", "c", "k", " ", "s", "h", "o", "u", "l",
      "d", " ", "n", "o", "t", " ", "c", "r", "a", "s", "h", " ", "h", "o", "s", "t">>
SelftestTitle ==
    <<"e", "x", "a", "m", "p", "l", "e", "s", " ", "c", "o", "n", "f", "o", "r", "m",
      " ", "t", "o", " ", "s", "c", "h", "e", "m", "a", " ", "e", "x", "p", "e", "c",
      "t", "a", "t", "i", "o", "n", "s", " ", "(", "h", "e", "u", "r", "i", "s", "t",
      "i", "c", ")">>
JourneyTitle ==
    <<"c", "r", "i", "t", "i", "c", "a", "l", " ", "j", "o", "u", "r", "n", "e", "y",
      " ", "r", "e", "n", "d", "e", "r", "s", " ", "a", "n", "d", " ", "c", "o", "m",
      "p", "l", "e", "t", "e", "s">>

TestCase(file, describe, title, body) ==
    [file |-> file, describe |-> describe, title |-> title, body |-> body]

\* the five tests of tests/
RepoTests ==
    { TestCase(ContractSpecFile, ContractDescribe, EventsTitle, "events"),
      TestCase(ContractSpecFile, ContractDescribe, OffersTitle, "offers"),
      TestCase(ContractSpecFile, ContractDescribe, NegativeTitle, "negative"),
      TestCase(SelftestSpecFile, SelftestDescribe, SelftestTitle, "selftest"),
      TestCase(IntegrationSpecFile, IntegrationDescribe, JourneyTitle, "journey") }

\* describe titles a test of tests/ may be moved under: one tag, the other,
\* the words without the @, another case and a longer word, no tag
OtherDescribes ==
    {
      <<"C", "h", "e", "c", "k", "o", "u", "t", " ", "(", "@", "f", "a", "k", "e", ")">>,
      <<"C", "h", "e", "c", "k", "o", "u", "t", " ", "(", "@", "c", "o", "n", "t", "r",
        "a", "c", "t", ")">>,
      <<"C", "h", "e", "c", "k", "o", "u", "t", " ", "f", "a", "k", "e", " ", "c", "o",
        "n", "t", "r", "a", "c", "t">>,
      <<"C", "h", "e", "c", "k", "o", "u", "t", " ", "(", "@", "F", "a", "k", "e", " ",
        "@", "C", "o", "n", "t", "r", "a", "c", "t", ")">>,
      <<"C", "h", "e", "c", "k", "o", "u", "t">> }

Tests == RepoTests \cup {[t EXCEPT !.describe = d] : t \in RepoTests, d \in OtherDescribes}

\* the text the project's patterns are tested against: the file, the describe
\* title and the test title, joined by spaces
GrepTitle(t) == t.file \o <<" ">> \o t.describe \o <<" ">> \o t.title

\* a plausible slip: grepInvert is ignored
SelectedGrepOnly(p, t) ==
    p.grep # <<>> => RegexTest(p.grep, GrepTitle(t))

\* grep and grepInvert of a project (playwright.config.ts lines 80 and 85)
Selected(p, t) ==
    /\ p.grep # <<>> => RegexTest(p.grep, GrepTitle(t))
    /\ p.grepInvert # <<>> => ~RegexTest(p.grepInvert, GrepTitle(t))

\* the federationMode fixture (fixture lines 227-230)
federationMode(projectName) ==
    IF Includes(projectName, Fake) THEN "fake" ELSE "real"

\* what a call on the browser context installs
InitScript == [call |-> "addInitScript", urls |-> {}, serve |-> "hostContext"]
RouteGenerated == [call |-> "route", urls |-> {"remoteEntry"}, serve |-> "generated"]
RouteHar == [call |-> "routeFromHAR", urls |-> {"remoteEntry", "api/remote"}, serve |-> "har"]
RouteInline == [call |-> "route", urls |-> {"remoteEntry"}, serve |-> "inline"]
RouteOffers == [call |-> "route", urls |-> {"api/remote/offers"}, serve |-> "offers"]

\* a plausible slip: the HAR file is preferred to the generated file
routeFederationHarFirst(m, fs) ==
    <<InitScript>> \o
    (IF m = "fake"
     THEN <<(IF fs.har THEN RouteHar ELSE IF fs.generated THEN RouteGenerated ELSE RouteInline),
            RouteOffers>>
     ELSE <<>>)

\* the routeFederation fixture (fixture lines 233-279): the calls it makes on
\* the context, in order
routeFederation(m, fs) ==
    <<InitScript>> \o
    (IF m = "fake"
     THEN <<(IF fs.generated THEN RouteGenerated ELSE IF fs.har THEN RouteHar ELSE RouteInline),
            RouteOffers>>
     ELSE <<>>)

\* the handler that answers a request: the last one installed for the url
RECURSIVE Serves(_, _)
Serves(inst, url) ==
    IF inst = <<>> THEN "network"
    ELSE IF url \in inst[Len(inst)].urls THEN inst[Len(inst)].serve
    ELSE Serves(SubSeq(inst, 1, Len(inst) - 1), url)

LateCheckIn == "Late check-in"
\* cb["value"] of contracts/examples/callback.onSpecialRequestChange.json
ExampleValue == "cb.value"
Event(v) == [type |-> "special", value |-> v]

\* window.onSpecialRequestChange as the host page leaves it
HostCallbacks == {"absent", "host", "throws"}

FreshWindow(cb) ==
    [ callback |-> cb, testEvents |-> <<>>, contractError |-> "undefined",
      pageErrors |-> 0, caught |-> 0, widget |-> "none" ]

\* window.onSpecialRequestChange(v): the window after the call and whether the
\* call threw. The recorder is the arrow function the tests install.
call(w, v) ==
    CASE w.callback = "recorder" ->
            [w |-> [w EXCEPT !.testEvents = Append(@, Event(v))], threw |-> FALSE]
      [] w.callback = "host" -> [w |-> w, threw |-> FALSE]
      [] OTHER -> [w |-> w, threw |-> TRUE]

\* window.onSpecialRequestChange?.(v)
optCall(w, v) == IF w.callback = "absent" THEN [w |-> w, threw |-> FALSE] ELSE call(w, v)

\* a plausible slip: the timer's callback without its try
timerCallbackNoTry(w) ==
    LET r == optCall(w, ExampleValue)
    IN  IF r.threw THEN [r.w EXCEPT !.pageErrors = @ + 1] ELSE r.w

\* the function given to setTimeout (generate-fake.mjs line 13)
timerCallback(w) ==
    LET r == optCall(w, ExampleValue)
    IN  IF r.threw THEN [r.w EXCEPT !.caught = @ + 1] ELSE r.w

\* the second page.evaluate of the negative test (contract.spec.ts lines 47-49)
contractInvoke(w) ==
    LET r == optCall(w, "value")
    IN  IF r.threw THEN [r.w EXCEPT !.contractError = "Error"] ELSE r.w

\* the body of the fulfilled offers route (fixture line 275)
OffersStub == <<[id |-> "DLX", price |-> 120], [id |-> "STD", price |-> 90]>>

NothingSeen == [events |-> <<>>, crash |-> "-", offers |-> <<>>, ok |-> FALSE]

\* positions of a test at which its page is open
PageOpen == {"install", "read", "delete", "invoke", "readcrash", "fetch", "journey", "expect"}

FirstStep(body) ==
    CASE body \in {"events", "selftest"} -> "install"
      [] body = "negative" -> "delete"
      [] body = "offers" -> "fetch"
      [] OTHER -> "journey"

\* the script is not run
NoScriptRun ==
    /\ pc = "-"
    /\ files = <<>>
    /\ i = 0
    /\ required = Idle
    /\ oldJ = NullJs
    /\ newJ = NullJs
    /\ c = Idle
    /\ oldV = <<>>
    /\ newV = <<>>
    /\ bump = Idle
    /\ out = <<>>
    /\ exitCode = -1
    /\ sevs = <<>>
    /\ ref = NoFile
    /\ wcopy = NoFile

InitTests ==
    /\ NoScriptRun
    /\ project \in Projects
    /\ test \in Tests
    /\ fsys \in [generated : BOOLEAN, har : BOOLEAN]
    /\ tpc = "select"
    /\ mode = "-"
    /\ installed = <<>>
    /\ window = <<>>
    /\ timer = "-"
    /\ seen = NothingSeen

\* the project runs the tests its patterns select
Select ==
    /\ tpc = "select"
    /\ tpc' = IF Selected(project, test) THEN "fixtures" ELSE "notselected"
    /\ UNCHANGED <<project, test, fsys, mode, installed, window, timer, seen>>
    /\ UNCHANGED scriptVars

\* fixture lines 227-230
FederationMode ==
    /\ tpc = "fixtures"
    /\ mode' = federationMode(project.name)
    /\ tpc' = "route"
    /\ UNCHANGED <<project, test, fsys, installed, window, timer, seen>>
    /\ UNCHANGED scriptVars

\* fixture lines 233-279, up to use()
RouteFederation ==
    /\ tpc = "route"
    /\ installed' = routeFederation(mode, fsys)
    /\ tpc' = "body"
    /\ UNCHANGED <<project, test, fsys, mode, window, timer, seen>>
    /\ UNCHANGED scriptVars

\* the test function is entered; test.skip of host-real-remote.spec.ts line 5
Begin ==
    /\ tpc = "body"
    /\ tpc' = IF test.body = "journey" /\ Includes(project.name, Fake) THEN "skipped" ELSE "goto"
    /\ UNCHANGED <<project, test, fsys, mode, installed, window, timer, seen>>
    /\ UNCHANGED scriptVars

\* page.goto('/') and the wait for the remote slot: the host page is loaded
Goto ==
    /\ tpc = "goto"
    /\ \E cb \in HostCallbacks : window' = FreshWindow(cb)
    /\ tpc' = FirstStep(test.body)
    /\ UNCHANGED <<project, test, fsys, mode, installed, timer, seen>>
    /\ UNCHANGED scriptVars

\* the host page obtains ./Widget from the remote entry it is served and calls
\* the factory; the factory of the generated fake starts the timer
\* (generate-fake.mjs lines 9-15), the inline stub's does not (fixture
\* lines 262-266)
HostMounts ==
    /\ tpc \in PageOpen
    /\ window.widget = "none"
    /\ Serves(installed, "remoteEntry") \in {"generated", "inline"}
    /\ window' = [window EXCEPT !.widget = "fake-remote-widget"]
    /\ timer' = IF Serves(installed, "remoteEntry") = "generated" THEN "pending" ELSE timer
    /\ UNCHANGED <<project, test, fsys, tpc, mode, installed, seen>>
    /\ UNCHANGED scriptVars

\* the timer of generate-fake.mjs line 13 expires
TimerFires ==
    /\ tpc \in PageOpen
    /\ timer = "pending"
    /\ window' = timerCallback(window)
    /\ timer' = "fired"
    /\ UNCHANGED <<project, test, fsys, tpc, mode, installed, seen>>
    /\ UNCHANGED scriptVars

\* contract.spec.ts lines 8-15, contract-selftest.spec.ts lines 11-19: one
\* page.evaluate that resets the list, installs the recorder and calls it
InstallAndInvoke ==
    /\ tpc = "install"
    /\ LET w == [window EXCEPT !.testEvents = <<>>, !.callback = "recorder"]
           v == IF test.body = "selftest" THEN ExampleValue ELSE LateCheckIn
       IN  window' = call(w, v).w
    /\ tpc' = "read"
    /\ UNCHANGED <<project, test, fsys, mode, installed, timer, seen>>
    /\ UNCHANGED scriptVars

\* contract.spec.ts line 16, contract-selftest.spec.ts line 20
ReadEvents ==
    /\ tpc = "read"
    /\ seen' = [seen EXCEPT !.events = window.testEvents]
    /\ tpc' = "expect"
    /\ UNCHANGED <<project, test, fsys, mode, installed, window, timer>>
    /\ UNCHANGED scriptVars

\* contract.spec.ts line 46
DeleteCallback ==
    /\ tpc = "delete"
    /\ window' = [window EXCEPT !.callback = "absent"]
    /\ tpc' = "invoke"
    /\ UNCHANGED <<project, test, fsys, mode, installed, timer, seen>>
    /\ UNCHANGED scriptVars

\* contract.spec.ts lines 47-49
InvokeMissing ==
    /\ tpc = "invoke"
    /\ window' = contractInvoke(window)
    /\ tpc' = "readcrash"
    /\ UNCHANGED <<project, test, fsys, mode, installed, timer, seen>>
    /\ UNCHANGED scriptVars

\* contract.spec.ts line 50
ReadCrash ==
    /\ tpc = "readcrash"
    /\ seen' = [seen EXCEPT !.crash = window.contractError]
    /\ tpc' = "expect"
    /\ UNCHANGED <<project, test, fsys, mode, installed, window, timer>>
    /\ UNCHANGED scriptVars

\* contract.spec.ts lines 24-31: the fetch is answered by the offers route
\* when it is installed, by the host's server otherwise
FetchOffers ==
    /\ tpc = "fetch"
    /\ \/ /\ Serves(installed, "api/remote/offers") = "offers"
          /\ seen' = [seen EXCEPT !.offers = OffersStub, !.ok = TRUE]
       \/ /\ Serves(installed, "api/remote/offers") # "offers"
          /\ \E isOk \in BOOLEAN : seen' = [seen EXCEPT !.ok = isOk]
    /\ tpc' = "expect"
    /\ UNCHANGED <<project, test, fsys, mode, installed, window, timer>>
    /\ UNCHANGED scriptVars

\* host-real-remote.spec.ts lines 6-13: the journey against the remote that
\* is served succeeds or does not
Journey ==
    /\ tpc = "journey"
    /\ \E result \in {"passed", "failed"} : tpc' = result
    /\ UNCHANGED <<project, test, fsys, mode, installed, window, timer, seen>>
    /\ UNCHANGED scriptVars

\* what the test's expect calls accept
Expected(body, s) ==
    CASE body = "events" -> s.events = <<Event(LateCheckIn)>>
      [] body = "selftest" -> s.events = <<Event(ExampleValue)>>
      [] body = "negative" -> s.crash = "undefined"
      [] OTHER -> s.ok /\ \A n \in DOMAIN s.offers :
                       DOMAIN s.offers[n] = {"id", "price"} /\ s.offers[n].price \in Int

\* contract.spec.ts lines 17, 33-41 and 51, contract-selftest.spec.ts line 21
Expect ==
    /\ tpc = "expect"
    /\ tpc' = IF Expected(test.body, seen) THEN "passed" ELSE "failed"
    /\ UNCHANGED <<project, test, fsys, mode, installed, window, timer, seen>>
    /\ UNCHANGED scriptVars

NextTests ==
    \/ Select \/ FederationMode \/ RouteFederation \/ Begin \/ Goto
    \/ HostMounts \/ TimerFires
    \/ InstallAndInvoke \/ ReadEvents
    \/ DeleteCallback \/ InvokeMissing \/ ReadCrash
    \/ FetchOffers \/ Journey \/ Expect

SpecTests == InitTests /\ [][NextTests]_vars

----------------------------------------------------------------------------
(* What the claims speak of, stated without the script's own operators. *)

\* the order none < patch < minor < major
SevOrder == <<"none", "patch", "minor", "major">>
SevIndex(a) == CHOOSE n \in 1..4 : SevOrder[n] = a
SevLeq(a, b) == SevIndex(a) <= SevIndex(b)

Range(q) == {q[n] : n \in 1..Len(q)}

\* the maximum of a sequence of severities, none when it is empty
MaxSev(q) ==
    IF q = <<>> THEN "none"
    ELSE CHOOSE a \in Range(q) : \A b \in Range(q) : SevLeq(b, a)

\* the decision matrix: the bumps each required severity accepts
PassExpected(req, b) ==
    \/ req = "none"
    \/ req = "patch" /\ b \in {"patch", "minor", "major"}
    \/ req = "minor" /\ b \in {"minor", "major"}
    \/ req = "major" /\ b = "major"

RowMessage(req) ==
    CASE req = "patch" -> "patch change needs version bump"
      [] req = "minor" -> "additive change needs minor bump"
      [] req = "major" -> "breaking change needs MAJOR bump"
      [] OTHER -> ""

Triples == (0..MaxComp) \X (0..MaxComp) \X (0..MaxComp)
WellFormed(v) == \E t \in Triples : Version(t[1], t[2], t[3]) = v
TripleOf(v) == CHOOSE t \in Triples : Version(t[1], t[2], t[3]) = v

\* the bump of a pair of version triples under semantic versioning
ExpectedBump(o, n) ==
    IF n[1] > o[1] THEN "major"
    ELSE IF n[1] = o[1] /\ n[2] > o[2] THEN "minor"
    ELSE IF n[1] = o[1] /\ n[2] = o[2] /\ n[3] > o[3] THEN "patch"
    ELSE "none-or-down"

\* deep structural equality of shapes and documents: the same members,
\* whatever the order of the keys
DeepEqualShape(a, b) == Range(a) = Range(b)
DeepEqualDoc(x, y) ==
    /\ x.present /\ y.present
    /\ DOMAIN x.properties = DOMAIN y.properties
    /\ \A k \in DOMAIN x.properties : DeepEqualShape(x.properties[k], y.properties[k])
    /\ x.required = y.required

HasEnum(s) == \E m \in Range(s) : m.k = "enum"
EnumOf(s) == UNION {Range(m.v) : m \in {x \in Range(s) : x.k = "enum"}}
RestOf(s) == {m \in Range(s) : m.k # "enum"}

\* old and new differ only in the shared property k, whose enum gains values
\* and keeps every old one
WidenedAt(k) ==
    /\ oldJ.present
    /\ DOMAIN oldJ.properties = DOMAIN newJ.properties
    /\ oldJ.required = newJ.required
    /\ k \in DOMAIN oldJ.properties
    /\ \A j \in DOMAIN oldJ.properties \ {k} : oldJ.properties[j] = newJ.properties[j]
    /\ HasEnum(oldJ.properties[k]) /\ HasEnum(newJ.properties[k])
    /\ EnumOf(oldJ.properties[k]) \subseteq EnumOf(newJ.properties[k])
    /\ EnumOf(oldJ.properties[k]) # EnumOf(newJ.properties[k])
    /\ RestOf(oldJ.properties[k]) = RestOf(newJ.properties[k])

\* new differs from old only by additional property names
AddedOnly ==
    /\ oldJ.present
    /\ DOMAIN oldJ.properties \subseteq DOMAIN newJ.properties
    /\ DOMAIN oldJ.properties # DOMAIN newJ.properties
    /\ \A k \in DOMAIN oldJ.properties : oldJ.properties[k] = newJ.properties[k]
    /\ oldJ.required = newJ.required

HasMajorFile == \E n \in 1..Len(out) : out[n].text = "Schema change" /\ out[n].sev = "major"

----------------------------------------------------------------------------
(* The claims. *)

\* C1: the decision matrix. For every required severity and every bump
\* classification the run passes (exit status 0) iff the row of the required
\* severity accepts the bump, and otherwise it fails (exit status 1) with
\* the row's message as its last line.
C1_DecisionMatrix ==
    pc = "exited" =>
        /\ (exitCode = 0) <=> PassExpected(required, bump)
        /\ exitCode # 0 =>
              /\ exitCode = 1
              /\ out # <<>>
              /\ out[Len(out)] = Line("error", RowMessage(required), <<>>, "")

C1_Witness ==
    /\ pc = "exited" /\ required = "major" /\ bump = "minor" /\ exitCode = 1
    /\ out[Len(out)].text = "breaking change needs MAJOR bump"

\* C2: for well-formed version strings <major>.<minor>.<patch>, cmp returns
\* major, minor or patch after the first component that rose, and
\* none-or-down otherwise.
C2_CompareWellFormed ==
    (pc = "compared" /\ WellFormed(oldV) /\ WellFormed(newV)) =>
        bump = ExpectedBump(TripleOf(oldV), TripleOf(newV))

\* C3: a run in which some file classified as major takes the major row:
\* required is major at the decision, and the run passes only if the bump is
\* major, whatever the other files and their order.
C3_MajorFileForcesMajorRow ==
    (pc = "exited" /\ HasMajorFile) =>
        /\ required = "major"
        /\ exitCode = 0 => bump = "major"

C3_Witness ==
    /\ pc = "exited" /\ Len(out) >= 3
    /\ out[1].text = "Schema change" /\ out[1].sev = "major"
    /\ out[2].text = "Schema change" /\ out[2].sev = "patch"
    /\ exitCode = 1

\* C4: removal dominates. If some property name of old.properties is
\* missing from new.properties then classify returns major.
C4_RemovalDominates ==
    (pc = "classified" /\ oldJ.present
       /\ \E k \in DOMAIN oldJ.properties : k \notin DOMAIN newJ.properties) =>
        c = "major"

\* C5: newly required forces major. If some name is in new.required and not
\* in old.required then classify returns major.
C5_NewlyRequiredIsMajor ==
    (pc = "classified" /\ oldJ.present /\ newJ.required \ oldJ.required # {}) =>
        c = "major"

\* an existing property made mandatory with no property change at all
C5_Witness ==
    /\ pc = "classified" /\ oldJ.present
    /\ oldJ.properties = newJ.properties
    /\ oldJ.required = {} /\ newJ.required = {"id"}
    /\ "id" \in DOMAIN oldJ.properties
    /\ c = "major"

\* C6: a new document that differs from the old one only by additional
\* property names is classified minor.
C6_AddedOnlyIsMinor ==
    (pc = "classified" /\ AddedOnly) => c = "minor"

\* C7: enum widening is non-breaking. When old and new differ only in one
\* shared property whose enum gains values and keeps every old one, classify
\* returns no more than minor.
C7_EnumWideningNotMajor ==
    (pc = "classified" /\ \E k \in DOMAIN oldJ.properties : WidenedAt(k)) =>
        /\ SevLeq(c, "minor")
        /\ c # "major"

\* the enum {A, B} widened to {A, B, C}
C7_Witness ==
    /\ pc = "classified" /\ WidenedAt("status")
    /\ oldJ.properties["status"] = StatusShape
    /\ newJ.properties["status"] = WideStatusShape
    /\ c = "patch"

\* C8: identical documents yield patch. For every document deep-equal to
\* the old one, classify returns patch.
C8_DeepEqualIsPatch ==
    (pc = "classified" /\ DeepEqualDoc(oldJ, newJ)) => c = "patch"

\* C9: a changed schema file with no content at the old revision does not
\* abort the run: readJSONAtRef yields null, the run goes on unless the
\* working copy cannot be read, and the file is classified minor.
C9_NewFileIsMinor ==
    ref.state = "missing" =>
        /\ ~oldJ.present
        /\ wcopy.state = "ok" =>
              /\ pc = "loop"
              /\ exitCode = -1
              /\ c = "minor"
              /\ out[Len(out)].sev = "minor"

C9_Witness ==
    /\ ref.state = "missing" /\ wcopy.state = "ok" /\ pc = "loop"
    /\ c = "minor" /\ newJ.properties # <<>>

\* C10: the aggregate is the maximum. Folding bumpFrom from none over the
\* first i severities yields none for i = 0 and their maximum otherwise.
C10_AggregateIsMax ==
    required = MaxSev(SubSeq(sevs, 1, i))

C10_Witness ==
    /\ pc = "decide" /\ Len(sevs) = 3
    /\ sevs[1] = "minor" /\ sevs[2] = "major" /\ sevs[3] = "patch"
    /\ required = "major"

----------------------------------------------------------------------------
(* Order of processing, malformed versions, the warning, the verdict. *)

\* the permutations of 1..n
Perms(n) == {p \in [1..n -> 1..n] : \A x, y \in 1..n : p[x] = p[y] => x = y}
Permuted(q, p) == [n \in 1..Len(q) |-> q[p[n]]]

\* the aggregate of a batch taken in the order of q
RECURSIVE FoldSev(_)
FoldSev(q) ==
    IF q = <<>> THEN "none"
    ELSE bumpFrom(FoldSev(SubSeq(q, 1, Len(q) - 1)), q[Len(q)])

\* C11: the order in which the files are processed does not matter. bumpFrom
\* is commutative and associative on the severities of the batch, and every
\* permutation of the batch gives the aggregate and the verdict of the run.
C11_OrderIndependent ==
    /\ \A a, b, d \in Range(sevs) \cup {required} :
          /\ bumpFrom(a, b) = bumpFrom(b, a)
          /\ bumpFrom(bumpFrom(a, b), d) = bumpFrom(a, bumpFrom(b, d))
    /\ pc = "exited" =>
          \A p \in Perms(Len(sevs)) :
              /\ FoldSev(Permuted(sevs, p)) = required
              /\ decide(FoldSev(Permuted(sevs, p)), bump) = [exit |-> exitCode, lines |-> out]

C11_Witness ==
    /\ pc = "exited" /\ Len(sevs) = 3
    /\ sevs[1] = "patch" /\ sevs[2] = "major" /\ sevs[3] = "minor"
    /\ required = "major" /\ bump = "minor" /\ exitCode = 1

\* the head of v from position j on that consists of digits
RECURSIVE DigitRun(_, _)
DigitRun(v, j) ==
    IF j <= Len(v) /\ IsDigit(v[j]) THEN <<v[j]>> \o DigitRun(v, j + 1) ELSE <<>>

RECURSIVE Base10(_)
Base10(d) ==
    IF d = <<>> THEN 0 ELSE 10 * Base10(SubSeq(d, 1, Len(d) - 1)) + DigitVal(d[Len(d)])

\* three base-10 integers separated by dots at the head of v, whatever follows
HeadVersion(v) ==
    LET a == DigitRun(v, 1)
        ja == Len(a) + 1
        b == DigitRun(v, ja + 1)
        jb == ja + 1 + Len(b)
        d == DigitRun(v, jb + 1)
        found == /\ a # <<>> /\ ja <= Len(v) /\ v[ja] = "."
                 /\ b # <<>> /\ jb <= Len(v) /\ v[jb] = "."
                 /\ d # <<>>
    IN  IF found THEN [ok |-> TRUE, M |-> Base10(a), m |-> Base10(b), p |-> Base10(d)]
        ELSE [ok |-> FALSE, M |-> 0, m |-> 0, p |-> 0]

\* C12: a malformed version string never makes the run throw. When the old
\* or the new string does not begin with three integers separated by dots
\* the bump is invalid; an invalid bump fails the rows patch, minor and major
\* with the row's message, and passes with the warning when nothing is
\* required.
C12_MalformedIsInvalid ==
    /\ (pc \in {"decide", "exited"} /\ (~HeadVersion(oldV).ok \/ ~HeadVersion(newV).ok)) =>
          bump = "invalid"
    /\ (pc = "exited" /\ bump = "invalid") =>
          /\ required \in {"patch", "minor", "major"} =>
                /\ exitCode = 1
                /\ out[Len(out)] = Line("error", RowMessage(required), <<>>, "")
          /\ required = "none" =>
                /\ exitCode = 0
                /\ out[Len(out) - 1] = Warning
                /\ out[Len(out)] = Line("log", "no schema changes", <<>>, "")

\* C13: the warning is printed exactly when nothing is required and the bump
\* is neither none-or-down nor patch, and a run that warns passes.
C13_WarningOnlyInNoneRow ==
    pc = "exited" =>
        /\ (\E n \in 1..Len(out) : out[n].stream = "warn")
              <=> (required = "none" /\ bump \notin {"none-or-down", "patch"})
        /\ \A n \in 1..Len(out) : out[n].stream = "warn" =>
              /\ out[n] = Warning
              /\ exitCode = 0
              /\ out[Len(out)] = Line("log", "no schema changes", <<>>, "")

C13_Witness ==
    /\ pc = "exited" /\ required = "none" /\ bump = "major"
    /\ out = <<Warning, Line("log", "no schema changes", <<>>, "")>>

\* C14: parse accepts every string that begins with three base-10 integers
\* separated by dots, whatever follows them, with those integers as its
\* components, and rejects every other string.
C14_ParseAcceptsVersionHeads ==
    pc = "compared" =>
        \A v \in {oldV, newV} :
            /\ parse(v).ok <=> HeadVersion(v).ok
            /\ HeadVersion(v).ok =>
                  /\ parse(v).M = Num(HeadVersion(v).M)
                  /\ parse(v).m = Num(HeadVersion(v).m)
                  /\ parse(v).p = Num(HeadVersion(v).p)

\* the messages of ok and fail in lines 44-47
VerdictTexts ==
    { "no schema changes", "patch ok", "minor ok", "major ok",
      "patch change needs version bump", "additive change needs minor bump",
      "breaking change needs MAJOR bump" }
IsVerdict(l) == l.stream \in {"log", "error"} /\ l.text \in VerdictTexts
Verdicts(q) == {n \in 1..Len(q) : IsVerdict(q[n])}

\* C15: a run ends with exactly one verdict. Once the decision is taken the
\* output holds one verdict line, the last one; the exit status is 0 exactly
\* for a pass and 1 exactly for a fail; and no further step is taken, so no
\* later row is evaluated and no second verdict is printed. Before the
\* decision there is no verdict and no exit status.
C15_OneTerminalVerdict ==
    /\ pc = "exited" =>
          /\ Verdicts(out) = {Len(out)}
          /\ exitCode \in {0, 1}
          /\ exitCode = 0 <=> out[Len(out)].stream = "log"
          /\ exitCode = 1 <=> out[Len(out)].stream = "error"
          /\ exitCode = 0 <=> PassExpected(required, bump)
          /\ ~ENABLED NextPolicy
    /\ pc # "exited" => (Verdicts(out) = {} /\ exitCode = -1)

C15_Witness ==
    /\ pc = "exited" /\ required = "patch" /\ bump = "none-or-down"
    /\ exitCode = 1
    /\ out = <<Line("error", "patch change needs version bump", <<>>, "")>>

SchemaLines(q) == {n \in 1..Len(q) : q[n].text = "Schema change"}

\* C16: a new schema document that cannot be read or parsed is fatal. The
\* run stops at that file with status 1 and takes no further step: the file
\* is not classified, the summary and the verdict are never printed. A
\* policy failure differs from it by the fail message that ends its output.
C16_UnreadableNewSchemaIsFatal ==
    /\ wcopy.state \in {"unreadable", "badjson"} =>
          /\ pc = "crashed"
          /\ exitCode = 1
          /\ ~ENABLED Next
          /\ Verdicts(out) = {}
          /\ SchemaLines(out) = 1..Len(out)
          /\ Len(out) = i
          /\ i < Len(schemaFilesOf(files))
    /\ (pc = "exited" /\ exitCode = 1) =>
          /\ out[Len(out)].stream = "error"
          /\ Verdicts(out) = {Len(out)}

C16_Witness ==
    /\ pc = "crashed" /\ wcopy.state = "badjson" /\ ref.state = "ok"
    /\ i = 1 /\ Len(out) = 1 /\ required = "major" /\ exitCode = 1

----------------------------------------------------------------------------
(* The contract tests, the projects and the federation fixture. *)

\* positions of a test after its last page.evaluate
Read == {"expect", "passed", "failed"}

C18_MissingCallbackDoesNotCrash ==
    /\ (test.body = "negative" /\ tpc \in {"readcrash"} \cup Read) =>
          window.contractError = "undefined"
    /\ (test.body = "negative" /\ tpc \in Read) => seen.crash = "undefined"
    /\ test.body = "negative" => tpc # "failed"
    /\ tpc \in PageOpen \cup {"passed", "failed"} => window.pageErrors = 0

C18_Witness ==
    /\ test \in RepoTests /\ test.body = "negative" /\ tpc = "passed"
    /\ project.name = ChromiumFake /\ fsys.generated
    /\ timer = "fired" /\ window.caught = 1 /\ window.callback = "absent"

\* the word w stands in str at position j
At(str, j, w) == j + Len(w) - 1 <= Len(str) /\ \A n \in 1..Len(w) : str[j + n - 1] = w[n]

\* the title carries one of the tags @fake and @contract
Tagged(t) ==
    \E j \in 1..Len(GrepTitle(t)) :
        /\ GrepTitle(t)[j] = "@"
        /\ \/ At(GrepTitle(t), j + 1, <<"f", "a", "k", "e">>)
           \/ At(GrepTitle(t), j + 1, <<"c", "o", "n", "t", "r", "a", "c", "t">>)

\* positions of a test whose body is being or has been executed
InBody == PageOpen \cup {"goto", "passed", "failed"}

\* C19: the two projects partition the tests. chromium-fake selects exactly
\* the tests whose title carries @fake or @contract and chromium-real exactly
\* the others, so each test is selected by exactly one project; and the body
\* of the real-remote journey is never executed by a project whose name
\* includes 'fake'.
C19_ProjectsPartitionTests ==
    /\ \A p \in Projects :
          Selected(p, test) <=> (IF p.name = ChromiumFake THEN Tagged(test) ELSE ~Tagged(test))
    /\ Cardinality({p \in Projects : Selected(p, test)}) = 1
    /\ tpc # "select" =>
          (tpc # "notselected" <=> (project.name = ChromiumFake <=> Tagged(test)))
    /\ (test.body = "journey" /\ tpc \in InBody) =>
          \A j \in 1..Len(project.name) : ~At(project.name, j, <<"f", "a", "k", "e">>)

C19_Witness ==
    /\ test = TestCase(IntegrationSpecFile, IntegrationDescribe, JourneyTitle, "journey")
    /\ project.name = ChromiumReal /\ tpc = "passed" /\ mode = "real"

\* the entries of inst that answer requests for url
RoutesFor(inst, url) == {n \in DOMAIN inst : url \in inst[n].urls}

\* C20: the federation fixture. The mode is fake exactly when the project's
\* name includes 'fake', real otherwise. The init script is installed first
\* in both modes. Real mode installs no route. Fake mode installs exactly one
\* source for the remote entry, the generated file if it exists, else the HAR
\* file if it exists, else the inline stub, and then the offers stub.
C20_FederationRouting ==
    /\ mode # "-" =>
          /\ mode \in {"fake", "real"}
          /\ mode = "fake" <=> project.name = ChromiumFake
    /\ tpc \in InBody \cup {"body", "skipped"} =>
          /\ installed[1].call = "addInitScript"
          /\ \A n \in 2..Len(installed) : installed[n].call # "addInitScript"
          /\ mode = "real" => Len(installed) = 1
          /\ mode = "fake" =>
                /\ Cardinality(RoutesFor(installed, "remoteEntry")) = 1
                /\ \A n \in RoutesFor(installed, "remoteEntry") :
                      installed[n].serve =
                          IF fsys.generated THEN "generated"
                          ELSE IF fsys.har THEN "har" ELSE "inline"
                /\ installed[Len(installed)] = RouteOffers
                /\ Cardinality(RoutesFor(installed, "api/remote/offers")) = 1

C20_Witness ==
    /\ project.name = ChromiumFake /\ mode = "fake" /\ tpc = "passed"
    /\ fsys.generated /\ fsys.har
    /\ installed = <<InitScript, RouteGenerated, RouteOffers>>

----------------------------------------------------------------------------
(* Shape changes, short-circuiting, output order, monotonicity. *)

\* the property names old and new both define
Shared == DOMAIN oldJ.properties \cap DOMAIN newJ.properties

\* C21: every structural change of a shared property other than a pure enum
\* widening is major. When the type or another attribute that is not the enum
\* differs between the old and the new shape of a shared property, classify
\* returns major, also when both shapes have an enum and the new one holds
\* every old value.
C21_NonEnumChangeIsMajor ==
    (pc = "classified" /\ oldJ.present
        /\ \E k \in Shared : RestOf(oldJ.properties[k]) # RestOf(newJ.properties[k]))
    => c = "major"

\* C22: enum narrowing is major. When both shapes of a shared property have
\* an enum and the new one lacks some old value, or when one shape only has
\* an enum, classify returns major.
C22_EnumNarrowingIsMajor ==
    (pc = "classified" /\ oldJ.present
        /\ \E k \in Shared :
              \/ /\ HasEnum(oldJ.properties[k]) /\ HasEnum(newJ.properties[k])
                 /\ ~(EnumOf(oldJ.properties[k]) \subseteq EnumOf(newJ.properties[k]))
              \/ HasEnum(oldJ.properties[k]) # HasEnum(newJ.properties[k]))
    => c = "major"

C22_Witness ==
    /\ pc = "classified" /\ c = "major"
    /\ oldJ = Doc([k \in {"status"} |-> <<Member("type", <<"string">>), Member("enum", <<"A", "B">>)>>], {})
    /\ newJ = Doc([k \in {"status"} |-> <<Member("type", <<"string">>), Member("enum", <<"A", "C">>)>>], {})

\* the signals of classify, each evaluated whatever the others say
Signals(oldJs, newJs) ==
    LET oP == oldJs.properties
        nP == newJs.properties
        oR == oldJs.required
        nR == newJs.required
    IN  << IF HasRemoved(oP, nP) THEN "major" ELSE "patch",
           IF HasBreakingShape(oP, nP) THEN "major" ELSE "patch",
           IF HasNewlyRequired(oR, nR) THEN "major" ELSE "patch",
           IF \E k \in Added(oP, nP) : k \in nR THEN "major" ELSE "patch",
           IF \E k \in Added(oP, nP) : k \notin nR THEN "minor" ELSE "patch" >>

\* C23: short-circuiting does not change the result. For a present old
\* document, what the early-returning classify returns is the maximum of the
\* severities of all its signals: removal, breaking shape change, newly
\* required and added-and-required are major, added optional is minor, and
\* patch when none fires.
C23_ShortCircuitIsMax ==
    (pc = "classified" /\ oldJ.present) => c = MaxSev(Signals(oldJ, newJ))

C23_Witness ==
    /\ pc = "classified" /\ oldJ.present /\ c = "major"
    /\ Signals(oldJ, newJ) = <<"patch", "patch", "major", "patch", "minor">>

\* C24: the size test of the enum exemption is redundant. Whenever both
\* shapes of a key have an enum and every old value is in the new set, the
\* new set is at least as large as the old one, duplicates in the arrays
\* included; the loop body without the test decides every key alike.
C24_SizeTestRedundant ==
    (pc = "classified" /\ oldJ.present) =>
        \A k \in DOMAIN newJ.properties :
            LET oe == EnumSet(oldJ.properties, k)
                ne == EnumSet(newJ.properties, k)
            IN  /\ (oe.isSet /\ ne.isSet /\ \A v \in oe.set : v \in ne.set)
                      => ne.size >= oe.size
                /\ ShapeBreaks(oldJ.properties, newJ.properties, k)
                      = ShapeBreaksNoSizeTest(oldJ.properties, newJ.properties, k)

C24_Witness ==
    /\ pc = "classified" /\ c = "patch"
    /\ oldJ = Doc([k \in {"status"} |-> <<Member("type", <<"string">>), Member("enum", <<"A", "A">>)>>], {})
    /\ newJ = Doc([k \in {"status"} |-> <<Member("type", <<"string">>), Member("enum", <<"A">>)>>], {})

\* the triple n is greater than o in the order of (major, minor, patch)
LexGreater(n, o) ==
    \/ n[1] > o[1]
    \/ n[1] = o[1] /\ n[2] > o[2]
    \/ n[1] = o[1] /\ n[2] = o[2] /\ n[3] > o[3]

FirstDiffering(o, n) ==
    IF o[1] # n[1] THEN "major" ELSE IF o[2] # n[2] THEN "minor" ELSE "patch"

\* C25: cmp mirrors the precedence of semantic versioning. For parseable old
\* and new, cmp names the first component that differs when the new triple
\* is greater in lexicographic order, and returns none-or-down, never
\* invalid, for every equal or lower new triple.
C25_SemverPrecedence ==
    (pc = "compared" /\ HeadVersion(oldV).ok /\ HeadVersion(newV).ok) =>
        LET o == <<HeadVersion(oldV).M, HeadVersion(oldV).m, HeadVersion(oldV).p>>
            n == <<HeadVersion(newV).M, HeadVersion(newV).m, HeadVersion(newV).p>>
        IN  bump = IF LexGreater(n, o) THEN FirstDiffering(o, n) ELSE "none-or-down"

\* the path lies under contracts/schema/
UnderSchemaDir(f) == Len(f) > 2 /\ SubSeq(f, 1, 2) = <<"contracts", "schema">>

\* C26: the order of the output. Each changed file under the schema
\* directory gets exactly one 'Schema change' line, in the order of
\* processing, and no other file gets one or counts for required; after them
\* come the 'Highest required' line, the version line and, last, the one
\* verdict.
C26_OutputOrder ==
    LET sf == SelectSeq(files, UnderSchemaDir)
    IN  pc \in {"loop", "decide", "exited"} =>
          /\ i <= Len(sf)
          /\ SchemaLines(out) = 1..i
          /\ \A n \in 1..i :
                /\ out[n].stream = "log" /\ out[n].file = sf[n]
                /\ out[n].sev \in {"patch", "minor", "major"}
          /\ required = MaxSev([n \in 1..i |-> out[n].sev])
          /\ pc = "loop" => Len(out) = i
          /\ pc \in {"decide", "exited"} =>
                /\ i = Len(sf)
                /\ out[i + 1] = Line("log", "Highest required", <<>>, required)
                /\ out[i + 2] = Line("log", "contracts version", <<>>, bump)
          /\ pc = "decide" => Len(out) = i + 2
          /\ pc = "exited" =>
                /\ Len(out) > i + 2
                /\ Verdicts(out) = {Len(out)}
                /\ \A n \in (i + 3)..(Len(out) - 1) : out[n] = Warning

C26_Witness ==
    /\ pc = "exited" /\ Len(out) = 5
    /\ files = << <<"README.md">>, <<"contracts", "schema", "event.json">>,
                  <<"contracts", "schema", "offer.json">> >>
    /\ out[1].sev = "minor" /\ out[2].sev = "major" /\ required = "major"

\* C27: classify returns patch only for documents that are structurally
\* identical: the same property names, deep-equal shapes, the enum included,
\* and the same required set.
C27_PatchOnlyWhenIdentical ==
    (pc = "classified" /\ oldJ.present /\ c = "patch") =>
        /\ DOMAIN oldJ.properties = DOMAIN newJ.properties
        /\ \A k \in Shared : DeepEqualShape(oldJ.properties[k], newJ.properties[k])
        /\ oldJ.required = newJ.required

\* C28: classify never returns none. Every classified file is patch, minor
\* or major; required is none exactly when no changed file lies under the
\* schema directory; and a run with a changed schema file passes with no
\* bump below patch.
C28_ClassifyNeverNone ==
    LET hasSchemaFile == \E n \in 1..Len(files) : UnderSchemaDir(files[n])
    IN  /\ c # Idle => c \in {"patch", "minor", "major"}
        /\ \A n \in SchemaLines(out) : out[n].sev \in {"patch", "minor", "major"}
        /\ pc = "loop" => (required = "none" <=> i = 0)
        /\ pc \in {"decide", "exited"} =>
              /\ required = "none" <=> ~hasSchemaFile
              /\ hasSchemaFile =>
                    \A b \in BumpClassification :
                        decide(required, b).exit = 0 => b \in {"patch", "minor", "major"}
        /\ (pc = "exited" /\ hasSchemaFile /\ exitCode = 0) =>
              bump \in {"patch", "minor", "major"}

C28_Witness ==
    /\ pc = "exited" /\ files = << <<"contracts", "schema", "offer.json">> >>
    /\ required = "patch" /\ bump = "none-or-down" /\ exitCode = 1

\* the valid bumps in their order
BumpOrder == <<"none-or-down", "patch", "minor", "major">>
BumpIndex(b) == CHOOSE n \in 1..4 : BumpOrder[n] = b
BumpLeq(a, b) == BumpIndex(a) <= BumpIndex(b)

\* C29: the verdict is monotone. A run that passes also passes with the
\* same required severity and any higher valid bump, and with the same bump
\* and any lower required severity; a run that fails also fails with any
\* lower valid bump and with any higher required severity.
C29_VerdictMonotone ==
    pc = "exited" =>
        /\ exitCode = 0 =>
              /\ \A r \in Severity : SevLeq(r, required) => decide(r, bump).exit = 0
              /\ bump \in Range(BumpOrder) =>
                    \A b \in Range(BumpOrder) :
                        BumpLeq(bump, b) => decide(required, b).exit = 0
        /\ exitCode = 1 =>
              /\ \A r \in Severity : SevLeq(required, r) => decide(r, bump).exit = 1
              /\ bump \in Range(BumpOrder) =>
                    \A b \in Range(BumpOrder) :
                        BumpLeq(b, bump) => decide(required, b).exit = 1

C29_Witness ==
    /\ pc = "exited" /\ required = "minor" /\ bump = "minor" /\ exitCode = 0
    /\ Len(sevs) = 2

\* C30: the new-file rule applies only to a file that did not exist at the
\* old revision. When the file existed there, whatever fetching or parsing
\* its old content gave, classify compares against that content and not
\* against null.
C30_NewFileRuleOnlyForNewFiles ==
    (pc = "loop" /\ wcopy.state = "ok" /\ ref.state \in {"giterror", "badjson", "jsonnull", "ok"})
        => oldJ.present

=============================================================================
